---- MODULE Spec2Model ----
(***************************************************************************)
(* The RoboTwin vectorised environment pool                                *)
(* (rlinf/envs/robotwin/RoboTwin_env.py, RoboTwin_wrapper.py): one         *)
(* controller process (class RoboTwin) and NumEnvs worker processes        *)
(* (function worker), sharing an action array, a result array, a seed      *)
(* cursor with its lock, a reset event and two counting semaphores.        *)
(***************************************************************************)
EXTENDS Integers, Sequences, FiniteSets, TLC

(* ---- bounds of the model ---------------------------------------------- *)
\* n_envs: number of worker processes of a pool
NumEnvs == 2
\* horizon: steps of one rollout chunk
Horizon == 2
\* env.step_lim of the simulated task
StepLim == 3
\* the caller issues step() only while every adapter has run fewer steps
MaxFinish == 3
\* adapter constructions that may raise during one controller call
MaxFails == 1
\* pools one controller object creates (init_process calls)
MaxPools == 2
\* step()/reset() calls the caller makes on a pool created after a clear()
MaxCalls == 1
\* rows of the largest action array passed to a lone adapter's step()
MaxRows == 2
\* sub-chunks of the largest batch passed to chunk_step
ChunkSize == 2

\* np.prod(IMAGE_SHAPE): elements of one image (240 * 320 * 3 in the code)
IMAGE_SIZE == 2

(* ---- program constants ------------------------------------------------ *)
action_dim == 14
NUM_IMAGES == 6
STATE_SIZE == 14
SeedWrap == 30
SeedCap == 3000

Procs == 0 .. (NumEnvs - 1)
InputSize == Horizon * action_dim
ActionsLen == NumEnvs * InputSize

VARIABLES
    cpc,            \* where the controller is
    ck,             \* index of the controller's current release/acquire loop
    actionsArg,     \* the argument of the running step() call: "None" or a batch
    seed,           \* self.seed
    process,        \* self.process: the list of worker handles
    gen,            \* pools created so far by this object
    input_sem,      \* action_input_sem: count of the go semaphore
    output_sem,     \* result_output_sem: count of the done semaphore
    reset_event,    \* the pool-wide reset flag
    share_seed,     \* the shared seed cursor
    seed_lock,      \* holder of seed_id.get_lock(): a worker id, or -1
    share_actions,  \* the shared action array, flat, row-major
    share_results,  \* the shared result array, one record per slice
    ret,            \* what the last finished controller call returned
    wpc,            \* where each worker is
    wt,             \* loop index t of each worker's rollout
    last,           \* action, last_reward, last_terminated, last_truncated of
                    \* each worker's rollout
    now_seed,       \* each worker's last claimed seed
    env,            \* each worker's adapter (RobotwinEnvWrapper)
    fails,          \* adapter constructions that raised in the running call
    calls,          \* step()/reset() calls made on the pool (counted up to
                    \* MaxCalls + 1)
    hist,           \* history of the running cycle and pool (observers only)
    chunk,          \* the locals of a running chunk_step call
    \* one adapter (RobotwinEnvWrapper) driven on its own
    apc,            \* where the running adapter method is
    wrapper,        \* the adapter's finish_step, active and complete
    sim,            \* self.env: "none", or the simulator instance
    lock,           \* self.lock is held
    ENV_INIT_LOCK,  \* _ENV_INIT_LOCK is held
    acall,          \* locals and outcome of the running or last adapter call
    ahist,          \* history of the adapter instance (observers only)
    \* one result record on its way through the result array
    codec,          \* the record a worker encodes, its flat form, and what
                    \* de_initialize_result makes of it
    auto_reset      \* self.auto_reset

AdapterVars == << apc, wrapper, sim, lock, ENV_INIT_LOCK, acall, ahist >>

\* what the actions of workers and of plain controller calls leave alone
OtherVars == << chunk, AdapterVars, codec, auto_reset >>

PoolVars == << cpc, ck, actionsArg, seed, process, gen, input_sem, output_sem,
               reset_event, share_seed, seed_lock, share_actions,
               share_results, ret, wpc, wt, last, now_seed, env, fails, calls,
               hist, chunk, auto_reset >>

vars == << PoolVars, AdapterVars, codec >>

(* ---- helpers ---------------------------------------------------------- *)

\* np.zeros((n_envs, horizon, action_dim)).flatten()
ZeroActions == [k \in 1 .. ActionsLen |-> 0]

\* a caller's batch, flattened: every component carries its own flat position
CallerActions == [k \in 1 .. ActionsLen |-> k]

\* numpy_actions[process_id][t]: row t of worker i's block of the flat array
ActionRow(buf, i, t) ==
    [a \in 1 .. action_dim |-> buf[(i * Horizon + t) * action_dim + a]]

\* a freshly constructed adapter (RobotwinEnvWrapper.__init__)
\* (trial_id and trial_seed are handed to the simulator and never read again)
NewWrapper(s) ==
    [built |-> TRUE, finish_step |-> 0, active |-> TRUE, complete |-> FALSE]

NoWrapper ==
    [built |-> FALSE, finish_step |-> 0, active |-> FALSE, complete |-> FALSE]

\* one slice of the result array: the three scalars of the record
Record(r, te, tr) == [reward |-> r, terminated |-> te, truncated |-> tr]

\* context.Array("d", ...): every element starts as 0.0
ZeroResults == [i \in Procs |-> Record(0, 0, 0)]

\* the locals of a rollout before its first step: action, last_reward,
\* last_terminated, last_truncated
NoLast == [action |-> << >>, reward |-> 0, terminated |-> FALSE,
           truncated |-> FALSE]

\* the absent return value (no call has returned since the last one started)
NoRet == [kind |-> "none", n |-> 0, reward |-> << >>,
          terminated |-> << >>, truncated |-> << >>]

\* the None a step() without actions returns for its reward
None == << >>

\* de_initialize_result and transform: the batch the controller decodes
DecodeReward(res) == [i \in Procs |-> res[i].reward]
DecodeTerminated(res) == [i \in Procs |-> res[i].terminated # 0]
DecodeTruncated(res) == [i \in Procs |-> res[i].truncated # 0]

\* what the observers remember of the running cycle
FreshCycle ==
    [kind |-> "none",
     goTaken |-> [i \in Procs |-> 0],
     doneGiven |-> [i \in Procs |-> 0],
     written |-> [i \in Procs |-> 0],
     writer |-> [i \in Procs |-> -1],
     reseeds |-> [i \in Procs |-> 0],
     applied |-> [i \in Procs |-> 0],
     seedAtCall |-> 0,
     got |-> [i \in Procs |-> -1],
     success |-> [i \in Procs |-> FALSE],
     wrong |-> FALSE,
     claims |-> 0,
     released |-> 0,
     acquired |-> 0]

\* the history of a cycle of the given kind that starts with the cursor at s
StartCycle(kind, s) == [FreshCycle EXCEPT !.kind = kind, !.seedAtCall = s]

Bump(f, i) == [f EXCEPT ![i] = @ + 1]

\* no chunk_step call is running
NoChunk ==
    [on |-> FALSE, size |-> 0, i |-> 0, chunk_rewards |-> << >>,
     raw_chunk_terminations |-> << >>, raw_chunk_truncations |-> << >>,
     success |-> << >>]

\* no record has been encoded
NoCodec == [phase |-> "none", x |-> << >>, result |-> << >>, cond |-> << >>]

\* no adapter method has been called
NoCall ==
    [method |-> "none", attempts |-> 0, setups |-> 0, releases |-> 0,
     rows |-> 0, done |-> FALSE, actRaised |-> FALSE, obsTried |-> FALSE,
     obs |-> "none", raised |-> "none", reward |-> 0, terminated |-> FALSE,
     truncated |-> FALSE, returned |-> FALSE, firstRaised |-> FALSE]

\* what the observers remember of an adapter instance
FreshInstance ==
    [init |-> "no", closed |-> FALSE, rows |-> 0, ended |-> FALSE,
     success |-> FALSE]

(* ---- the initial state: RoboTwin.__init__ up to its init_process call -- *)
Init ==
    /\ cpc = "construct"
    /\ ck = 0
    /\ actionsArg = "None"
    /\ seed = 0
    /\ process = << >>
    /\ gen = 0
    /\ input_sem = 0
    /\ output_sem = 0
    /\ reset_event = FALSE
    /\ share_seed = 0
    /\ seed_lock = -1
    /\ share_actions = ZeroActions
    /\ share_results = ZeroResults
    /\ ret = NoRet
    /\ wpc = [i \in Procs |-> "unborn"]
    /\ wt = [i \in Procs |-> 0]
    /\ last = [i \in Procs |-> NoLast]
    /\ now_seed = [i \in Procs |-> 0]
    /\ env = [i \in Procs |-> NoWrapper]
    /\ fails = 0
    /\ calls = 0
    /\ hist = [cycle |-> FreshCycle, expect |-> 0, dead |-> {}, atClear |-> 0]
    /\ chunk = NoChunk
    /\ apc = "idle"
    /\ wrapper = NewWrapper(0)
    /\ sim = "none"
    /\ lock = FALSE
    /\ ENV_INIT_LOCK = FALSE
    /\ acall = NoCall
    /\ ahist = FreshInstance
    /\ codec = NoCodec
    /\ auto_reset = FALSE

(* ---- the controller (class RoboTwin) ----------------------------------- *)

WorkerVars == << wpc, wt, last, now_seed, env >>

\* the caller's bound on the calls it makes on a pool
MayCall == gen < MaxPools \/ calls < MaxCalls

\* init_process, lines 408-439: the primitives, the shared arrays, the workers
C_InitProcess ==
    /\ cpc = "construct" \/ (cpc = "idle" /\ process = << >> /\ ~chunk.on)
    /\ gen < MaxPools
    /\ input_sem' = 0
    /\ output_sem' = 0
    /\ reset_event' = FALSE
    /\ share_seed' = seed
    /\ seed_lock' = -1
    /\ share_actions' = ZeroActions
    /\ share_results' = ZeroResults
    /\ gen' = gen + 1
    /\ process' = process \o [k \in 1 .. NumEnvs |-> << gen + 1, k - 1 >>]
    /\ wpc' = [i \in Procs |-> "boot"]
    /\ wt' = [i \in Procs |-> 0]
    /\ last' = [i \in Procs |-> NoLast]
    /\ now_seed' = [i \in Procs |-> 0]
    /\ env' = [i \in Procs |-> NoWrapper]
    /\ cpc' = "init_rel"
    /\ ck' = 0
    /\ ret' = NoRet
    /\ fails' = 0
    /\ calls' = 0
    /\ hist' = [hist EXCEPT !.cycle = StartCycle("init", seed), !.expect = seed]
    /\ UNCHANGED << actionsArg, seed >>
    /\ UNCHANGED OtherVars

\* a release loop whose turn releases two go-signals
ReleaseLoopTwice(from, to) ==
    /\ cpc = from
    /\ input_sem' = input_sem + 2
    /\ IF ck + 1 = NumEnvs
       THEN cpc' = to /\ ck' = 0
       ELSE cpc' = from /\ ck' = ck + 1
    /\ hist' = [hist EXCEPT !.cycle.released = @ + 1]
    /\ UNCHANGED << actionsArg, seed, process, gen, output_sem, reset_event,
                    share_seed, seed_lock, share_actions, share_results, ret,
                    fails, calls >>
    /\ UNCHANGED WorkerVars
    /\ UNCHANGED OtherVars

\* one turn of a loop "for _ in range(n_envs): input_sem.release()"
ReleaseLoop(from, to) ==
    /\ cpc = from
    /\ input_sem' = input_sem + 1
    /\ IF ck + 1 = NumEnvs
       THEN cpc' = to /\ ck' = 0
       ELSE cpc' = from /\ ck' = ck + 1
    /\ hist' = [hist EXCEPT !.cycle.released = @ + 1]
    /\ UNCHANGED << actionsArg, seed, process, gen, output_sem, reset_event,
                    share_seed, seed_lock, share_actions, share_results, ret,
                    fails, calls >>
    /\ UNCHANGED WorkerVars
    /\ UNCHANGED OtherVars

\* a wait loop that stops one done-signal short
DonesAwaitedShort == NumEnvs - 1

\* a wait loop that waits for half of the workers only
DonesAwaitedHalf == NumEnvs \div 2

\* how many done-signals a controller call acquires before it reads
DonesAwaited == NumEnvs

\* one turn of a loop "for _ in range(n_envs): output_sem.acquire()"
AcquireLoop(from, to) ==
    /\ cpc = from
    /\ output_sem > 0
    /\ output_sem' = output_sem - 1
    /\ IF ck + 1 >= DonesAwaited
       THEN cpc' = to /\ ck' = 0
       ELSE cpc' = from /\ ck' = ck + 1
    /\ hist' = [hist EXCEPT !.cycle.acquired = @ + 1]
    /\ UNCHANGED << actionsArg, seed, process, gen, input_sem, reset_event,
                    share_seed, seed_lock, share_actions, share_results, ret,
                    fails, calls >>
    /\ UNCHANGED WorkerVars
    /\ UNCHANGED OtherVars

\* a step() that returns the decoded reward whatever it was called with
StepRewardAlways(arg, res) == DecodeReward(res)

\* the reward a step() call returns
StepReward(arg, res) == IF arg = "None" THEN None ELSE DecodeReward(res)

\* the read of the result array that ends a call, and its return value
DecodeAndReturn(from, kind, reward) ==
    /\ cpc = from
    /\ ret' = [kind |-> kind, n |-> Cardinality(DOMAIN share_results),
               reward |-> reward,
               terminated |-> DecodeTerminated(share_results),
               truncated |-> DecodeTruncated(share_results)]
    /\ cpc' = "idle"
    /\ UNCHANGED << ck, actionsArg, seed, process, gen, input_sem, output_sem,
                    reset_event, share_seed, seed_lock, share_actions,
                    share_results, fails, calls, hist >>
    /\ UNCHANGED WorkerVars
    /\ UNCHANGED OtherVars

C_InitRelease == ReleaseLoop("init_rel", "init_acq")
C_InitAcquire == AcquireLoop("init_acq", "init_dec")
C_InitDecode == DecodeAndReturn("init_dec", "init", DecodeReward(share_results))

\* the batch step() writes into the shared action array
StepActions(arg) == IF arg = "None" THEN ZeroActions ELSE CallerActions

\* step, lines 457-462: the write of the action array
StepCallUpTo(lim) ==
    /\ cpc = "idle"
    /\ ~chunk.on
    /\ MayCall
    /\ \A i \in Procs : env[i].finish_step < lim
    /\ \E arg \in {"None", "batch"} :
          /\ actionsArg' = arg
          /\ share_actions' = StepActions(arg)
    /\ cpc' = "step_rel"
    /\ ck' = 0
    /\ ret' = NoRet
    /\ fails' = 0
    /\ calls' = IF calls <= MaxCalls THEN calls + 1 ELSE calls
    /\ hist' = [hist EXCEPT !.cycle = StartCycle("step", share_seed)]
    /\ UNCHANGED << seed, process, gen, input_sem, output_sem, reset_event,
                    share_seed, seed_lock, share_results >>
    /\ UNCHANGED WorkerVars
    /\ UNCHANGED OtherVars

C_StepCall == StepCallUpTo(MaxFinish)

C_StepRelease == ReleaseLoop("step_rel", "step_acq")
C_StepAcquire == AcquireLoop("step_acq", "step_dec")
C_StepDecode ==
    DecodeAndReturn("step_dec", "step", StepReward(actionsArg, share_results))

\* reset, line 484: reset_event.set()
C_ResetCall ==
    /\ cpc = "idle"
    /\ ~chunk.on
    /\ MayCall
    /\ reset_event' = TRUE
    /\ cpc' = "reset_rel"
    /\ ck' = 0
    /\ ret' = NoRet
    /\ fails' = 0
    /\ calls' = IF calls <= MaxCalls THEN calls + 1 ELSE calls
    /\ hist' = [hist EXCEPT !.cycle = StartCycle("reset", share_seed)]
    /\ UNCHANGED << actionsArg, seed, process, gen, input_sem, output_sem,
                    share_seed, seed_lock, share_actions, share_results >>
    /\ UNCHANGED WorkerVars
    /\ UNCHANGED OtherVars

C_ResetRelease == ReleaseLoop("reset_rel", "reset_acq")
C_ResetAcquire == AcquireLoop("reset_acq", "reset_clr")

\* reset, line 493: reset_event.clear()
C_ResetClear ==
    /\ cpc = "reset_clr"
    /\ reset_event' = FALSE
    /\ cpc' = "reset_dec"
    /\ UNCHANGED << ck, actionsArg, seed, process, gen, input_sem, output_sem,
                    share_seed, seed_lock, share_actions, share_results, ret,
                    fails, calls, hist >>
    /\ UNCHANGED WorkerVars
    /\ UNCHANGED OtherVars

\* reset returns the observation and info batches only
C_ResetDecode == DecodeAndReturn("reset_dec", "reset", None)

\* a clear() that forgets the cursor
KeptSeedZero(s) == 0

\* the seed clear() keeps for the next pool
KeptSeed(s) == IF s > SeedCap THEN 0 ELSE s

\* clear, lines 614-626
C_Clear ==
    /\ cpc = "idle"
    /\ ~chunk.on
    /\ process # << >>
    /\ wpc' = [i \in Procs |-> "terminated"]
    /\ wt' = [i \in Procs |-> 0]
    /\ last' = [i \in Procs |-> NoLast]
    /\ now_seed' = [i \in Procs |-> 0]
    /\ env' = [i \in Procs |-> NoWrapper]
    /\ seed' = KeptSeed(share_seed)
    /\ process' = << >>
    /\ ret' = NoRet
    /\ hist' = [hist EXCEPT !.dead = @ \cup {process[k] : k \in DOMAIN process},
                            !.atClear = share_seed,
                            !.cycle = StartCycle("clear", share_seed)]
    /\ fails' = 0
    /\ UNCHANGED << cpc, ck, actionsArg, gen, input_sem, output_sem,
                    reset_event, share_seed, seed_lock, share_actions,
                    share_results, calls >>
    /\ UNCHANGED OtherVars


(* ---- the adapter (RobotwinEnvWrapper) ---------------------------------- *)

\* a step() that reports the step-count ceiling whether or not it succeeded
WrapperStepBothFlags(w, done, rows) ==
    LET fs == w.finish_step + rows
    IN  [wrapper |-> [w EXCEPT !.finish_step = fs,
                               !.active = IF done \/ fs >= StepLim
                                          THEN FALSE ELSE @,
                               !.complete = IF done \/ fs >= StepLim
                                            THEN done ELSE @],
         reward |-> IF done THEN 1 ELSE 0,
         terminated |-> done,
         truncated |-> fs >= StepLim]

\* a step() that marks every ended episode complete
WrapperStepCompletes(w, done, rows) ==
    LET fs == w.finish_step + rows
        ended == done \/ fs >= StepLim
    IN  [wrapper |-> [w EXCEPT !.finish_step = fs,
                               !.active = IF ended THEN FALSE ELSE @,
                               !.complete = IF ended THEN TRUE ELSE @],
         reward |-> IF done THEN 1 ELSE 0,
         terminated |-> done,
         truncated |-> fs >= StepLim /\ ~done]

\* RobotwinEnvWrapper.step, lines 186-199, for an action array of the given
\* number of rows; done is what the simulator's eval_success says (False when
\* take_action raised)
WrapperStepRows(w, done, rows) ==
    LET fs == w.finish_step + rows
        timeout == fs >= StepLim
        terminated == done
        truncated == timeout /\ ~terminated
    IN  [wrapper |-> [w EXCEPT !.finish_step = fs,
                               !.active = IF terminated \/ truncated
                                          THEN FALSE ELSE @,
                               !.complete = IF terminated \/ truncated
                                            THEN done ELSE @],
         reward |-> IF done THEN 1 ELSE 0,
         terminated |-> terminated,
         truncated |-> truncated]

\* a step that starts the step count anew once the ceiling was reached
WrapperStepAnew(w, done) ==
    WrapperStepRows([w EXCEPT !.finish_step = IF @ >= StepLim THEN 0 ELSE @],
                    done, 1)

\* the worker's call, line 173: action = input_actions[t].reshape(1, ACTION_DIM)
WrapperStep(w, done) == WrapperStepRows(w, done, 1)

(* ---- the worker process (function worker) ------------------------------ *)

ControllerVars == << cpc, ck, actionsArg, seed, process, gen, ret, calls >>

\* the slice of the result array worker i writes: RESULT_SIZE * process_id
Slice(i) == i

\* lines 73-80: the first adapter, with trial_seed 0
W_Boot(i) ==
    /\ wpc[i] = "boot"
    /\ env' = [env EXCEPT ![i] = NewWrapper(0)]
    /\ wpc' = [wpc EXCEPT ![i] = "init_acq"]
    /\ UNCHANGED ControllerVars
    /\ UNCHANGED << input_sem, output_sem, reset_event, share_seed, seed_lock,
                    share_actions, share_results, wt, last, now_seed, fails,
                    hist >>
    /\ UNCHANGED OtherVars

\* action_input_sem.acquire(), at line 83 or line 108
AcquireGo(i, from, to) ==
    /\ wpc[i] = from
    /\ input_sem > 0
    /\ input_sem' = input_sem - 1
    /\ wpc' = [wpc EXCEPT ![i] = to]
    /\ hist' = [hist EXCEPT !.cycle.goTaken = Bump(@, i)]
    /\ UNCHANGED ControllerVars
    /\ UNCHANGED << output_sem, reset_event, share_seed, seed_lock,
                    share_actions, share_results, wt, last, now_seed, env,
                    fails >>
    /\ UNCHANGED OtherVars

\* results[RESULT_SIZE * process_id : ...] = result, at lines 104, 161, 239
WriteSlice(i, from, to, rec) ==
    /\ wpc[i] = from
    /\ share_results' = [share_results EXCEPT ![Slice(i)] = rec]
    /\ wpc' = [wpc EXCEPT ![i] = to]
    /\ hist' = [hist EXCEPT !.cycle.written = Bump(@, Slice(i)),
                            !.cycle.writer = [@ EXCEPT ![Slice(i)] = i]]
    \* t and last_* are set anew before the next chunk reads them
    /\ wt' = [wt EXCEPT ![i] = 0]
    /\ last' = [last EXCEPT ![i] = NoLast]
    /\ UNCHANGED ControllerVars
    /\ UNCHANGED << input_sem, output_sem, reset_event, share_seed, seed_lock,
                    share_actions, now_seed, env, fails >>
    /\ UNCHANGED OtherVars

\* result_output_sem.release(), at lines 105, 162, 240
ReleaseDone(i, from) ==
    /\ wpc[i] = from
    /\ output_sem' = output_sem + 1
    /\ wpc' = [wpc EXCEPT ![i] = "acq"]
    /\ hist' = [hist EXCEPT !.cycle.doneGiven = Bump(@, i)]
    /\ UNCHANGED ControllerVars
    /\ UNCHANGED << input_sem, reset_event, share_seed, seed_lock,
                    share_actions, share_results, wt, last, now_seed, env,
                    fails >>
    /\ UNCHANGED OtherVars

\* the wrap of the cursor: "if seed_id.value >= 30: seed_id.value %= 30"
WrapSeed(v) == IF v >= SeedWrap THEN v % SeedWrap ELSE v

\* a claim made without taking the lock
LockIgnored == TRUE

\* whether a worker may enter "with seed_id.get_lock()"
LockFree == seed_lock = -1

\* the observers' count of the seeds claimed in a cycle stops here
ClaimsCap == SeedWrap + 1

\* "with seed_id.get_lock(): now_seed = seed_id.value"
ClaimSeed(i, from, to) ==
    /\ wpc[i] = from
    /\ LockFree
    /\ seed_lock' = i
    /\ now_seed' = [now_seed EXCEPT ![i] = share_seed]
    /\ wpc' = [wpc EXCEPT ![i] = to]
    /\ hist' = [hist EXCEPT !.expect = (@ + 1) % SeedWrap,
                            !.cycle.wrong = @ \/ share_seed # hist.expect,
                            !.cycle.claims = IF @ < ClaimsCap THEN @ + 1 ELSE @]
    /\ UNCHANGED ControllerVars
    /\ UNCHANGED << input_sem, output_sem, reset_event, share_seed,
                    share_actions, share_results, wt, last, env, fails >>
    /\ UNCHANGED OtherVars

\* still under the lock: seed_id.value += 1
IncrementSeed(i, from, to) ==
    /\ wpc[i] = from
    /\ share_seed' = share_seed + 1
    /\ wpc' = [wpc EXCEPT ![i] = to]
    /\ UNCHANGED ControllerVars
    /\ UNCHANGED << input_sem, output_sem, reset_event, seed_lock,
                    share_actions, share_results, wt, last, now_seed, env,
                    fails, hist >>
    /\ UNCHANGED OtherVars

\* a wrap that goes on without leaving the lock
WrapAndKeepLock(i, from, to) ==
    /\ wpc[i] = from
    /\ share_seed' = WrapSeed(share_seed)
    /\ wpc' = [wpc EXCEPT ![i] = to]
    /\ UNCHANGED ControllerVars
    /\ UNCHANGED << input_sem, output_sem, reset_event, seed_lock,
                    share_actions, share_results, wt, last, now_seed, env,
                    fails, hist >>
    /\ UNCHANGED OtherVars

\* still under the lock: the wrap, then the lock is left
WrapAndUnlock(i, from, to) ==
    /\ wpc[i] = from
    /\ share_seed' = WrapSeed(share_seed)
    /\ seed_lock' = -1
    /\ wpc' = [wpc EXCEPT ![i] = to]
    /\ UNCHANGED ControllerVars
    /\ UNCHANGED << input_sem, output_sem, reset_event, share_actions,
                    share_results, wt, last, now_seed, env, fails, hist >>
    /\ UNCHANGED OtherVars

\* the first cycle, lines 83-105
W_InitAcquire(i) == AcquireGo(i, "init_acq", "init_pub")
W_InitPublish(i) == WriteSlice(i, "init_pub", "init_done", Record(0, 0, 0))
W_InitRelease(i) == ReleaseDone(i, "init_done")

\* line 108
W_Acquire(i) == AcquireGo(i, "acq", "chk")

\* line 114: if reset_event.is_set()
W_CheckReset(i) ==
    /\ wpc[i] = "chk"
    /\ IF reset_event
       THEN /\ wpc' = [wpc EXCEPT ![i] = "reset_claim"]
            /\ UNCHANGED << wt, last >>
       ELSE /\ wpc' = [wpc EXCEPT ![i] = "roll"]
            /\ wt' = [wt EXCEPT ![i] = 0]
            /\ last' = [last EXCEPT ![i] = NoLast]
    /\ UNCHANGED ControllerVars
    /\ UNCHANGED << input_sem, output_sem, reset_event, share_seed, seed_lock,
                    share_actions, share_results, now_seed, env, fails, hist >>
    /\ UNCHANGED OtherVars

\* the reset branch, lines 115-163
W_ResetClaim(i) == ClaimSeed(i, "reset_claim", "reset_incr")
W_ResetIncrement(i) == IncrementSeed(i, "reset_incr", "reset_wrap")
W_ResetWrap(i) == WrapAndUnlock(i, "reset_wrap", "reset_build")

\* lines 124-136: the old adapter is closed, a new one built and initialised
W_ResetBuild(i) ==
    /\ wpc[i] = "reset_build"
    /\ env' = [env EXCEPT ![i] = NewWrapper(now_seed[i])]
    /\ wpc' = [wpc EXCEPT ![i] = "reset_pub"]
    /\ now_seed' = [now_seed EXCEPT ![i] = 0]
    /\ hist' = [hist EXCEPT !.cycle.reseeds = Bump(@, i),
                            !.cycle.got = [@ EXCEPT ![i] = now_seed[i]]]
    /\ UNCHANGED ControllerVars
    /\ UNCHANGED << input_sem, output_sem, reset_event, share_seed, seed_lock,
                    share_actions, share_results, wt, last, fails >>
    /\ UNCHANGED OtherVars

\* lines 137-140: the construction raised; valid_seed stays False and the
\* while loop claims the next seed
W_ResetBuildFails(i) ==
    /\ wpc[i] = "reset_build"
    /\ fails < MaxFails
    /\ fails' = fails + 1
    /\ env' = [env EXCEPT ![i] = NoWrapper]
    /\ wpc' = [wpc EXCEPT ![i] = "reset_claim"]
    /\ now_seed' = [now_seed EXCEPT ![i] = 0]
    /\ UNCHANGED ControllerVars
    /\ UNCHANGED << input_sem, output_sem, reset_event, share_seed, seed_lock,
                    share_actions, share_results, wt, last, hist >>
    /\ UNCHANGED OtherVars

\* the same lines with no bound on how often the construction raises (the
\* while loop of line 116 runs until a construction succeeds), in the first
\* call made on the first pool
W_ResetBuildRaises(i) ==
    /\ wpc[i] = "reset_build"
    /\ gen = 1
    /\ calls = 1
    /\ env' = [env EXCEPT ![i] = NoWrapper]
    /\ wpc' = [wpc EXCEPT ![i] = "reset_claim"]
    /\ now_seed' = [now_seed EXCEPT ![i] = 0]
    /\ UNCHANGED ControllerVars
    /\ UNCHANGED << input_sem, output_sem, reset_event, share_seed, seed_lock,
                    share_actions, share_results, wt, last, fails, hist >>
    /\ UNCHANGED OtherVars

W_ResetPublish(i) == WriteSlice(i, "reset_pub", "done", Record(0, 0, 1))

\* the rollout, lines 171-179: one turn of "for t in range(HORIZON)", over a
\* simulator whose eval_success is one of dones
W_StepOn(i, dones) ==
    /\ wpc[i] = "roll"
    /\ wt[i] < Horizon
    /\ \E done \in dones :
          LET row == ActionRow(share_actions, i, wt[i])
              out == WrapperStep(env[i], done)
          IN  /\ env' = [env EXCEPT ![i] = out.wrapper]
              /\ last' = [last EXCEPT ![i] =
                             [action |-> row,
                              reward |-> out.reward,
                              terminated |-> out.terminated,
                              truncated |-> out.truncated]]
              /\ wt' = [wt EXCEPT ![i] = @ + 1]
              /\ wpc' = [wpc EXCEPT ![i] =
                            IF out.terminated THEN "auto_claim"
                            ELSE IF wt[i] + 1 = Horizon THEN "pub"
                            ELSE "roll"]
    /\ hist' = [hist EXCEPT
                   !.cycle.applied = Bump(@, i),
                   !.cycle.success = [@ EXCEPT ![i] = @ \/ last'[i].terminated]]
    /\ UNCHANGED ControllerVars
    /\ UNCHANGED << input_sem, output_sem, reset_event, share_seed, seed_lock,
                    share_actions, share_results, now_seed, fails >>
    /\ UNCHANGED OtherVars

\* over a simulator that may report success at any step
W_Step(i) == W_StepOn(i, BOOLEAN)

\* over a simulator that never reports success
W_StepNoSuccess(i) == W_StepOn(i, {FALSE})

\* auto reset after a terminated step, lines 201-222
W_AutoClaim(i) == ClaimSeed(i, "auto_claim", "auto_incr")
W_AutoIncrement(i) == IncrementSeed(i, "auto_incr", "auto_wrap")
W_AutoWrap(i) == WrapAndUnlock(i, "auto_wrap", "auto_build")

\* an auto reset that keeps the adapter of the ended episode
AutoAdapterKept(i) == env[i]

\* lines 214-221: the adapter the auto reset builds and initialises
AutoAdapter(i) == NewWrapper(now_seed[i])

W_AutoBuild(i) ==
    /\ wpc[i] = "auto_build"
    /\ env' = [env EXCEPT ![i] = AutoAdapter(i)]
    /\ wpc' = [wpc EXCEPT ![i] = "pub"]
    /\ now_seed' = [now_seed EXCEPT ![i] = 0]
    /\ UNCHANGED ControllerVars
    /\ UNCHANGED << input_sem, output_sem, reset_event, share_seed, seed_lock,
                    share_actions, share_results, wt, last, fails, hist >>
    /\ UNCHANGED OtherVars

\* a record taken from the episode the auto reset has just started
ChunkRecordFresh(l) == Record(0, 0, 0)

\* lines 229-236: last_reward, 1 if last_terminated else 0, 1 if
\* last_truncated else 0
ChunkRecord(l) ==
    Record(l.reward, IF l.terminated THEN 1 ELSE 0,
           IF l.truncated THEN 1 ELSE 0)

\* lines 229-239: the record of the chunk
W_Publish(i) == WriteSlice(i, "pub", "done", ChunkRecord(last[i]))

\* lines 162 and 240
W_Release(i) == ReleaseDone(i, "done")

(* ---- the system -------------------------------------------------------- *)

Controller ==
    \/ C_InitProcess
    \/ C_InitRelease
    \/ C_InitAcquire
    \/ C_InitDecode
    \/ C_StepCall
    \/ C_StepRelease
    \/ C_StepAcquire
    \/ C_StepDecode
    \/ C_ResetCall
    \/ C_ResetRelease
    \/ C_ResetAcquire
    \/ C_ResetClear
    \/ C_ResetDecode
    \/ C_Clear

Worker(i) ==
    \/ W_Boot(i)
    \/ W_InitAcquire(i)
    \/ W_InitPublish(i)
    \/ W_InitRelease(i)
    \/ W_Acquire(i)
    \/ W_CheckReset(i)
    \/ W_ResetClaim(i)
    \/ W_ResetIncrement(i)
    \/ W_ResetWrap(i)
    \/ W_ResetBuild(i)
    \/ W_ResetBuildFails(i)
    \/ W_ResetPublish(i)
    \/ W_Step(i)
    \/ W_AutoClaim(i)
    \/ W_AutoIncrement(i)
    \/ W_AutoWrap(i)
    \/ W_AutoBuild(i)
    \/ W_Publish(i)
    \/ W_Release(i)

Next == Controller \/ \E i \in Procs : Worker(i)

Spec == Init /\ [][Next]_vars

\* the same system over a simulator whose construction may raise any number
\* of times within a reset cycle
NextRetry == Next \/ \E i \in Procs : W_ResetBuildRaises(i)

SpecRetry == Init /\ [][NextRetry]_vars


\* the same system over a simulator that never reports success: no step is
\* terminated, so no worker resets itself
WorkerNoSuccess(i) ==
    \/ W_Boot(i)
    \/ W_InitAcquire(i)
    \/ W_InitPublish(i)
    \/ W_InitRelease(i)
    \/ W_Acquire(i)
    \/ W_CheckReset(i)
    \/ W_ResetClaim(i)
    \/ W_ResetIncrement(i)
    \/ W_ResetWrap(i)
    \/ W_ResetBuild(i)
    \/ W_ResetBuildFails(i)
    \/ W_ResetPublish(i)
    \/ W_StepNoSuccess(i)
    \/ W_Publish(i)
    \/ W_Release(i)

NextNoSuccess == Controller \/ \E i \in Procs : WorkerNoSuccess(i)

SpecNoSuccess == Init /\ [][NextNoSuccess]_vars

\* line 135 inside the retry loop: env_wrapper.initialize() reaches
\* get_robotwin2_task, whose bare except turns a failure to build the task
\* into SystemExit (RoboTwin_wrapper.py lines 36-42); SystemExit is not an
\* Exception, so line 137 does not catch it and the process ends
W_ResetBuildExits(i) ==
    /\ wpc[i] = "reset_build"
    /\ gen = 1
    /\ calls = 1
    /\ env' = [env EXCEPT ![i] = NoWrapper]
    /\ wpc' = [wpc EXCEPT ![i] = "dead"]
    /\ now_seed' = [now_seed EXCEPT ![i] = 0]
    /\ UNCHANGED ControllerVars
    /\ UNCHANGED << input_sem, output_sem, reset_event, share_seed, seed_lock,
                    share_actions, share_results, wt, last, fails, hist >>
    /\ UNCHANGED OtherVars

\* line 142, after the loop: env_wrapper.get_obs() raises again after the
\* adapter's own retry; the call is outside every try and the process ends
W_ResetObsRaises(i) ==
    /\ wpc[i] = "reset_pub"
    /\ gen = 1
    /\ calls = 1
    /\ wpc' = [wpc EXCEPT ![i] = "dead"]
    /\ UNCHANGED ControllerVars
    /\ UNCHANGED << input_sem, output_sem, reset_event, share_seed, seed_lock,
                    share_actions, share_results, wt, last, now_seed, env,
                    fails, hist >>
    /\ UNCHANGED OtherVars

\* the reset branch with every way its reconstruction and first observation
\* can fail
NextResetExit ==
    \/ Next
    \/ \E i \in Procs : W_ResetBuildExits(i)
    \/ \E i \in Procs : W_ResetObsRaises(i)

SpecResetExit == Init /\ [][NextResetExit]_vars

\* line 80 raises: env_wrapper.initialize() of the first adapter fails after
\* the adapter's own retry (or get_robotwin2_task exits); nothing in worker()
\* catches it, and the process ends before it has taken a go-signal
W_BootRaises(i) ==
    /\ wpc[i] = "boot"
    /\ wpc' = [wpc EXCEPT ![i] = "dead"]
    /\ UNCHANGED ControllerVars
    /\ UNCHANGED << input_sem, output_sem, reset_event, share_seed, seed_lock,
                    share_actions, share_results, wt, last, now_seed, env,
                    fails, hist >>
    /\ UNCHANGED OtherVars

\* the same system over workers that may die while they start
NextDeath == Next \/ \E i \in Procs : W_BootRaises(i)

SpecDeath == Init /\ [][NextDeath]_vars

\* lines 214-222 raise: in the auto reset of a terminated episode the new
\* adapter's initialize() fails after its own retry, or its get_obs() does;
\* neither call is inside a try, and the process ends before line 239
W_AutoBuildRaises(i) ==
    /\ wpc[i] = "auto_build"
    /\ env' = [env EXCEPT ![i] = NoWrapper]
    /\ wpc' = [wpc EXCEPT ![i] = "dead"]
    /\ now_seed' = [now_seed EXCEPT ![i] = 0]
    /\ UNCHANGED ControllerVars
    /\ UNCHANGED << input_sem, output_sem, reset_event, share_seed, seed_lock,
                    share_actions, share_results, wt, last, fails, hist >>
    /\ UNCHANGED OtherVars

\* a rollout step whose observation refresh fails: RobotwinEnvWrapper.step
\* swallows the error and returns obs = None (RoboTwin_wrapper.py lines
\* 179-184); when that None is one of the last two entries of obs_list (the
\* step is one of the last two of the rollout, or it terminated the episode),
\* update_obs at lines 192-193 subscripts None and the process ends
W_StepObsFails(i) ==
    /\ wpc[i] = "roll"
    /\ wt[i] < Horizon
    /\ \E done \in BOOLEAN :
          LET row == ActionRow(share_actions, i, wt[i])
              out == WrapperStep(env[i], done)
          IN  /\ done \/ wt[i] + 2 >= Horizon
              /\ env' = [env EXCEPT ![i] = out.wrapper]
              /\ last' = [last EXCEPT ![i] =
                             [action |-> row,
                              reward |-> out.reward,
                              terminated |-> out.terminated,
                              truncated |-> out.truncated]]
    /\ wt' = [wt EXCEPT ![i] = @ + 1]
    /\ wpc' = [wpc EXCEPT ![i] = "dead"]
    /\ hist' = [hist EXCEPT !.cycle.applied = Bump(@, i)]
    /\ UNCHANGED ControllerVars
    /\ UNCHANGED << input_sem, output_sem, reset_event, share_seed, seed_lock,
                    share_actions, share_results, now_seed, fails >>
    /\ UNCHANGED OtherVars

\* the same system over a simulator whose construction and observation can
\* fail inside a step cycle
NextStepFaults ==
    \/ Next
    \/ \E i \in Procs : W_AutoBuildRaises(i)
    \/ \E i \in Procs : W_StepObsFails(i)

SpecStepFaults == Init /\ [][NextStepFaults]_vars

(* ---- chunk_step -------------------------------------------------------- *)

\* the last dimension of the batch handed to chunk_step: action_dim, as line
\* 542 documents it, or a whole row of horizon * action_dim values
ChunkWidths == {action_dim, InputSize}

\* torch.stack(seq, dim=1): [num_envs, chunk_steps] from a list of batches
Stack(seq) == [i \in Procs |-> [j \in 1 .. Len(seq) |-> seq[j][i]]]

\* raw.any(dim=1), lines 565-566
AnyOf(raw) == [i \in Procs |-> \E j \in DOMAIN raw[i] : raw[i][j]]

\* a chunk_step that returns the flags where the cycles raised them
LastOnlyRaw(raw) == raw

\* lines 574-578: zeros_like(raw) with the last column set to raw.any(dim=1)
LastOnly(raw) ==
    [i \in Procs |->
        [j \in DOMAIN raw[i] |-> IF j = Len(raw[i]) THEN AnyOf(raw)[i]
                                 ELSE FALSE]]

\* step(actions), lines 457-462, as chunk_step calls it
StepEnter ==
    /\ actionsArg' = "batch"
    /\ share_actions' = StepActions("batch")
    /\ cpc' = "step_rel"
    /\ ck' = 0
    /\ ret' = NoRet
    /\ fails' = 0
    /\ calls' = IF calls <= MaxCalls THEN calls + 1 ELSE calls
    /\ hist' = [hist EXCEPT !.cycle = StartCycle("step", share_seed)]

\* lines 553-555: what the step() that has just returned adds to the lists
Appended ==
    [chunk EXCEPT
       !.i = @ + 1,
       !.chunk_rewards = Append(@, ret.reward),
       !.raw_chunk_terminations = Append(@, ret.terminated),
       !.raw_chunk_truncations = Append(@, ret.truncated),
       !.success = Append(@, hist.cycle.success)]

\* the caller's bound on chunk_step: it is the first call made on a pool
MayChunk == calls = 0

\* chunk_step, lines 543-551, up to the write of the first step(); the
\* assignment share_actions[:] = actions.flatten() raises ValueError when the
\* lengths differ
C_ChunkCall ==
    /\ cpc = "idle"
    /\ ~chunk.on
    /\ process # << >>
    /\ MayChunk
    /\ \E size \in 1 .. ChunkSize, width \in ChunkWidths :
          IF NumEnvs * width = Len(share_actions)
          THEN /\ chunk' = [NoChunk EXCEPT !.on = TRUE, !.size = size]
               /\ StepEnter
          ELSE /\ ret' = [NoRet EXCEPT !.kind = "chunk_raised"]
               /\ UNCHANGED << cpc, ck, actionsArg, share_actions, fails,
                               calls, hist, chunk >>
    /\ UNCHANGED << seed, process, gen, input_sem, output_sem, reset_event,
                    share_seed, seed_lock, share_results >>
    /\ UNCHANGED WorkerVars
    /\ UNCHANGED << AdapterVars, codec, auto_reset >>

\* lines 553-555 and 547-551: the next turn of the loop
C_ChunkNext ==
    /\ cpc = "idle"
    /\ chunk.on
    /\ chunk.i + 1 < chunk.size
    /\ chunk' = Appended
    /\ StepEnter
    /\ UNCHANGED << seed, process, gen, input_sem, output_sem, reset_event,
                    share_seed, seed_lock, share_results >>
    /\ UNCHANGED WorkerVars
    /\ UNCHANGED << AdapterVars, codec, auto_reset >>

\* lines 565-567: past_dones.any()
PastDones(c) ==
    \E i \in Procs : \/ AnyOf(Stack(c.raw_chunk_terminations))[i]
                     \/ AnyOf(Stack(c.raw_chunk_truncations))[i]

\* lines 553-585 after the last step(). Line 570 calls
\* self._handle_auto_reset, which neither class RoboTwin nor gym.Env defines:
\* with auto_reset set and an environment done, the call ends in
\* AttributeError
C_ChunkReturn ==
    /\ cpc = "idle"
    /\ chunk.on
    /\ chunk.i + 1 = chunk.size
    /\ IF PastDones(Appended) /\ auto_reset
       THEN ret' = [NoRet EXCEPT !.kind = "chunk_no_handler"]
       ELSE ret' = [kind |-> "chunk", n |-> ret.n,
                    reward |-> Stack(Appended.chunk_rewards),
                    terminated |->
                       LastOnly(Stack(Appended.raw_chunk_terminations)),
                    truncated |->
                       LastOnly(Stack(Appended.raw_chunk_truncations)),
                    raw_terminated |-> Stack(Appended.raw_chunk_terminations),
                    raw_truncated |-> Stack(Appended.raw_chunk_truncations),
                    success |-> Stack(Appended.success)]
    /\ chunk' = NoChunk
    /\ UNCHANGED << cpc, ck, actionsArg, seed, process, gen, input_sem,
                    output_sem, reset_event, share_seed, seed_lock,
                    share_actions, share_results, fails, calls, hist >>
    /\ UNCHANGED WorkerVars
    /\ UNCHANGED << AdapterVars, codec, auto_reset >>

\* a caller that steps the pool through chunk_step only
ChunkController ==
    \/ C_InitProcess
    \/ C_InitRelease
    \/ C_InitAcquire
    \/ C_InitDecode
    \/ C_ChunkCall
    \/ C_ChunkNext
    \/ C_ChunkReturn
    \/ C_StepRelease
    \/ C_StepAcquire
    \/ C_StepDecode
    \/ C_ResetCall
    \/ C_ResetRelease
    \/ C_ResetAcquire
    \/ C_ResetClear
    \/ C_ResetDecode
    \/ C_Clear

NextChunk == ChunkController \/ \E i \in Procs : Worker(i)

SpecChunk == Init /\ [][NextChunk]_vars

\* the caller turns on the controller's auto reset (the attribute line 298
\* initialises to False), once init_process has returned
C_EnableAutoReset ==
    /\ cpc = "idle"
    /\ ret.kind = "init"
    /\ ~auto_reset
    /\ auto_reset' = TRUE
    /\ UNCHANGED << cpc, ck, actionsArg, seed, process, gen, input_sem,
                    output_sem, reset_event, share_seed, seed_lock,
                    share_actions, share_results, ret, fails, calls, hist,
                    chunk >>
    /\ UNCHANGED WorkerVars
    /\ UNCHANGED << AdapterVars, codec >>

\* a caller that keeps one pool, may turn auto reset on, and steps the pool
\* through chunk_step
ChunkAutoController ==
    \/ C_InitProcess
    \/ C_InitRelease
    \/ C_InitAcquire
    \/ C_InitDecode
    \/ C_EnableAutoReset
    \/ C_ChunkCall
    \/ C_ChunkNext
    \/ C_ChunkReturn
    \/ C_StepRelease
    \/ C_StepAcquire
    \/ C_StepDecode
    \/ C_ResetCall
    \/ C_ResetRelease
    \/ C_ResetAcquire
    \/ C_ResetClear
    \/ C_ResetDecode

NextChunkAuto == ChunkAutoController \/ \E i \in Procs : Worker(i)

SpecChunkAuto == Init /\ [][NextChunkAuto]_vars

(* ---- one adapter on its own (class RobotwinEnvWrapper) ----------------- *)

\* what a call into the simulator may do
Outcomes == {"ok", "raise"}

\* what get_robotwin2_task may do: return, raise from reading the task
\* configuration, or raise SystemExit("No Task: ...") from its bare except
\* around the import and construction of the task class (lines 36-42)
TaskOutcomes == {"ok", "raise", "exit"}

StartCall(m) == [NoCall EXCEPT !.method = m]

\* RobotwinEnvWrapper(...): a new instance replaces the one in use (as the
\* worker does at lines 128 and 214)
A_New ==
    /\ apc = "idle"
    /\ ahist # FreshInstance
    /\ wrapper' = NewWrapper(0)
    /\ sim' = "none"
    /\ lock' = FALSE
    /\ acall' = NoCall
    /\ ahist' = FreshInstance
    /\ UNCHANGED << apc, ENV_INIT_LOCK >>
    /\ UNCHANGED << PoolVars, codec >>

\* initialize, lines 122-123: both locks are taken
A_InitializeCall ==
    /\ apc = "idle"
    /\ ahist.init = "no"
    /\ ~ahist.closed
    /\ ~ENV_INIT_LOCK /\ ~lock
    /\ ENV_INIT_LOCK' = TRUE
    /\ lock' = TRUE
    /\ apc' = "init_try"
    /\ acall' = StartCall("initialize")
    /\ UNCHANGED << wrapper, sim, ahist >>
    /\ UNCHANGED << PoolVars, codec >>

\* the exception leaves the method: the with blocks release what is held
Propagate(exc, status) ==
    /\ apc' = "idle"
    /\ lock' = FALSE
    /\ ENV_INIT_LOCK' = FALSE
    /\ ahist' = [ahist EXCEPT !.init = status]
    /\ UNCHANGED wrapper

\* lines 124-131: get_robotwin2_task, setup_demo, get_info
A_InitializeTry ==
    /\ apc = "init_try"
    /\ \E task \in TaskOutcomes, setup \in Outcomes, info \in Outcomes :
          /\ sim' = IF task = "ok" THEN "made" ELSE sim
          /\ IF task = "exit"
             THEN /\ Propagate("SystemExit", "failed")
                  /\ acall' = [acall EXCEPT !.attempts = @ + 1,
                                            !.firstRaised = TRUE,
                                            !.raised = "SystemExit"]
             ELSE /\ acall' = [acall EXCEPT
                                 !.attempts = @ + 1,
                                 !.firstRaised = ~(task = "ok" /\ setup = "ok"
                                                    /\ info = "ok"),
                                 !.setups = IF task = "ok" /\ setup = "ok"
                                            THEN @ + 1 ELSE @]
                  /\ apc' = IF task = "ok" /\ setup = "ok" /\ info = "ok"
                            THEN "init_instr" ELSE "init_retry"
                  /\ UNCHANGED << wrapper, lock, ENV_INIT_LOCK, ahist >>
    /\ UNCHANGED << PoolVars, codec >>

\* lines 132-138: the except branch runs the same three calls unguarded
A_InitializeRetry ==
    /\ apc = "init_retry"
    /\ \E task \in TaskOutcomes, setup \in Outcomes, info \in Outcomes :
          /\ sim' = IF task = "ok" THEN "made" ELSE sim
          /\ IF task = "ok" /\ setup = "ok" /\ info = "ok"
             THEN /\ acall' = [acall EXCEPT !.attempts = @ + 1,
                                            !.setups = @ + 1]
                  /\ apc' = "init_instr"
                  /\ UNCHANGED << wrapper, lock, ENV_INIT_LOCK, ahist >>
             ELSE /\ Propagate(IF task = "exit" THEN "SystemExit"
                               ELSE "Exception", "failed")
                  /\ acall' = [acall EXCEPT
                                 !.attempts = @ + 1,
                                 !.setups = IF task = "ok" /\ setup = "ok"
                                            THEN @ + 1 ELSE @,
                                 !.raised = IF task = "exit"
                                            THEN "SystemExit"
                                            ELSE "Exception"]
    /\ UNCHANGED << PoolVars, codec >>

\* lines 141-144: the instruction is generated and set, outside the try
A_InitializeInstr ==
    /\ apc = "init_instr"
    /\ \E o \in Outcomes :
          IF o = "ok"
          THEN /\ Propagate("none", "ok")
               /\ acall' = [acall EXCEPT !.returned = TRUE]
          ELSE /\ Propagate("Exception", "failed")
               /\ acall' = [acall EXCEPT !.raised = "Exception"]
    /\ UNCHANGED sim
    /\ UNCHANGED << PoolVars, codec >>

\* get_obs, line 148
A_GetObsCall ==
    /\ apc = "idle"
    /\ ahist.init = "ok"
    /\ ~ahist.closed
    /\ ~lock
    /\ lock' = TRUE
    /\ apc' = "obs_try"
    /\ acall' = StartCall("get_obs")
    /\ UNCHANGED << wrapper, sim, ENV_INIT_LOCK, ahist >>
    /\ UNCHANGED << PoolVars, codec >>

\* lines 149-151
A_GetObsTry ==
    /\ apc = "obs_try"
    /\ \E o \in Outcomes :
          IF o = "ok"
          THEN /\ acall' = [acall EXCEPT !.attempts = @ + 1, !.obs = "obs",
                                         !.returned = TRUE]
               /\ apc' = "idle"
               /\ lock' = FALSE
          ELSE /\ acall' = [acall EXCEPT !.attempts = @ + 1,
                                         !.firstRaised = TRUE]
               /\ apc' = "obs_retry"
               /\ UNCHANGED lock
    /\ UNCHANGED << wrapper, sim, ENV_INIT_LOCK, ahist >>
    /\ UNCHANGED << PoolVars, codec >>

\* lines 152-157: the second env.get_obs() is unguarded
A_GetObsRetry ==
    /\ apc = "obs_retry"
    /\ \E o \in Outcomes :
          acall' = [acall EXCEPT !.attempts = @ + 1,
                                 !.obs = IF o = "ok" THEN "obs" ELSE @,
                                 !.returned = (o = "ok"),
                                 !.raised = IF o = "ok" THEN "none"
                                            ELSE "Exception"]
    /\ apc' = "idle"
    /\ lock' = FALSE
    /\ UNCHANGED << wrapper, sim, ENV_INIT_LOCK, ahist >>
    /\ UNCHANGED << PoolVars, codec >>

\* step, line 167, with an action array of 1 .. MaxRows rows
A_StepCall ==
    /\ apc = "idle"
    /\ ahist.init = "ok"
    /\ ~ahist.closed
    /\ wrapper.finish_step < MaxFinish
    /\ ~lock
    /\ lock' = TRUE
    /\ apc' = "step_act"
    /\ \E rows \in 1 .. MaxRows :
          acall' = [StartCall("step") EXCEPT !.rows = rows]
    /\ UNCHANGED << wrapper, sim, ENV_INIT_LOCK, ahist >>
    /\ UNCHANGED << PoolVars, codec >>

\* a step() whose except branch leaves done as the simulator has it
ActDoneStale(o, success) == success

\* lines 168-174: done is eval_success, and False when take_action raised
ActDone(o, success) == o = "ok" /\ success

\* lines 168-177: take_action and eval_success, or the except branch
A_StepAct ==
    /\ apc = "step_act"
    /\ \E o \in Outcomes, success \in BOOLEAN :
          acall' = [acall EXCEPT !.done = ActDone(o, success),
                                 !.actRaised = (o = "raise")]
    /\ apc' = "step_obs"
    /\ UNCHANGED << wrapper, sim, lock, ENV_INIT_LOCK, ahist >>
    /\ UNCHANGED << PoolVars, codec >>

\* lines 179-184: the observation is refreshed, None if that raises
A_StepObs ==
    /\ apc = "step_obs"
    /\ \E o \in Outcomes :
          acall' = [acall EXCEPT !.obsTried = TRUE,
                                 !.obs = IF o = "ok" THEN "obs" ELSE "None"]
    /\ apc' = "step_fin"
    /\ UNCHANGED << wrapper, sim, lock, ENV_INIT_LOCK, ahist >>
    /\ UNCHANGED << PoolVars, codec >>

\* lines 186-206: the count, the flags, the reward and the return
A_StepFinish ==
    /\ apc = "step_fin"
    /\ LET out == WrapperStepRows(wrapper, acall.done, acall.rows)
       IN  /\ wrapper' = out.wrapper
           /\ acall' = [acall EXCEPT !.reward = out.reward,
                                     !.terminated = out.terminated,
                                     !.truncated = out.truncated,
                                     !.returned = TRUE]
           /\ ahist' = [ahist EXCEPT
                          !.rows = @ + acall.rows,
                          !.ended = @ \/ out.terminated \/ out.truncated,
                          !.success = @ \/ acall.done]
    /\ apc' = "idle"
    /\ lock' = FALSE
    /\ UNCHANGED << sim, ENV_INIT_LOCK >>
    /\ UNCHANGED << PoolVars, codec >>

\* close, line 210
A_CloseCall ==
    /\ apc = "idle"
    /\ ~lock
    /\ lock' = TRUE
    /\ apc' = "close_try"
    /\ acall' = StartCall("close")
    /\ UNCHANGED << wrapper, sim, ENV_INIT_LOCK, ahist >>
    /\ UNCHANGED << PoolVars, codec >>

\* a close() that asks for the release whether or not there is a simulator
CloseReleasesAlways(s) == 1

\* line 211: close_env is called only "if self.env is not None"
CloseReleases(s) == IF s = "none" THEN 0 ELSE 1

\* lines 211-215: close_env is called when there is a simulator; what it
\* raises is printed
A_CloseTry ==
    /\ apc = "close_try"
    /\ \E o \in Outcomes :
          acall' = [acall EXCEPT
                      !.releases = @ + CloseReleases(sim),
                      !.actRaised = (CloseReleases(sim) > 0 /\ o = "raise"),
                      !.returned = TRUE]
    /\ apc' = "idle"
    /\ lock' = FALSE
    /\ ahist' = [ahist EXCEPT !.closed = TRUE]
    /\ UNCHANGED << wrapper, sim, ENV_INIT_LOCK >>
    /\ UNCHANGED << PoolVars, codec >>

NextAdapter ==
    \/ A_New
    \/ A_InitializeCall
    \/ A_InitializeTry
    \/ A_InitializeRetry
    \/ A_InitializeInstr
    \/ A_GetObsCall
    \/ A_GetObsTry
    \/ A_GetObsRetry
    \/ A_StepCall
    \/ A_StepAct
    \/ A_StepObs
    \/ A_StepFinish
    \/ A_CloseCall
    \/ A_CloseTry

SpecAdapter == Init /\ [][NextAdapter]_vars

(* ---- the result record: worker's encoding, de_initialize_result -------- *)

\* np.prod(TARGET_SHAPE), TARGET_SHAPE = (horizon, 6)
TARGET_SIZE == Horizon * 6

\* args["result_size"], lines 288-290
RESULT_SIZE == NUM_IMAGES * IMAGE_SIZE + STATE_SIZE + 3 + TARGET_SIZE

\* ndarray.flatten() of a two-dimensional array, row-major
RECURSIVE Flatten(_)
Flatten(rows) ==
    IF rows = << >> THEN << >> ELSE Head(rows) \o Flatten(Tail(rows))

\* ndarray.reshape(n, m) of a flat array of n * m elements
Reshape(flat, n, m) ==
    [r \in 1 .. n |-> [c \in 1 .. m |-> flat[(r - 1) * m + c]]]

\* the slice flat[start : start + n]
SliceOf(flat, start, n) == SubSeq(flat, start + 1, start + n)

\* filling_up, lines 66-71: pad with copies of the last row up to HORIZON rows
filling_up(return_poses) ==
    IF Len(return_poses) < Horizon
    THEN [r \in 1 .. Horizon |->
            IF r <= Len(return_poses) THEN return_poses[r]
            ELSE return_poses[Len(return_poses)]]
    ELSE return_poses

\* an encoding that writes the two flags before the reward
EncodeFlagsFirst(x) ==
    Flatten(x.imgs) \o x.state
      \o << IF x.terminated THEN 1 ELSE 0 >>
      \o << IF x.truncated THEN 1 ELSE 0 >>
      \o << x.reward >>
      \o Flatten(x.return_poses)

\* np.concatenate([...]), lines 229-238
Encode(x) ==
    Flatten(x.imgs) \o x.state
      \o << x.reward >>
      \o << IF x.terminated THEN 1 ELSE 0 >>
      \o << IF x.truncated THEN 1 ELSE 0 >>
      \o Flatten(x.return_poses)

\* de_initialize_result, lines 591-610, for one row of the result array;
\* "end" is the value of start after the last field
de_initialize_result(result) ==
    LET s0 == 0
        s1 == s0 + NUM_IMAGES * IMAGE_SIZE
        s2 == s1 + STATE_SIZE
        s3 == s2 + 1
        s4 == s3 + 1
        s5 == s4 + 1
        s6 == s5 + TARGET_SIZE
    IN  [imgs |-> Reshape(SliceOf(result, s0, NUM_IMAGES * IMAGE_SIZE),
                          NUM_IMAGES, IMAGE_SIZE),
         state |-> Reshape(SliceOf(result, s1, STATE_SIZE), 1, STATE_SIZE),
         reward |-> SliceOf(result, s2, 1),
         terminated |-> SliceOf(result, s3, 1),
         truncated |-> SliceOf(result, s4, 1),
         return_poses |-> Reshape(SliceOf(result, s5, TARGET_SIZE), Horizon, 6),
         end |-> s6]

\* n consecutive values starting after b
Ramp(b, n) == [k \in 1 .. n |-> b + k]

\* the records a worker may have to publish: every field filled with values
\* that tell its positions apart, over two fillings per field
Records ==
    { [imgs |-> [k \in 1 .. NUM_IMAGES |->
                    [p \in 1 .. IMAGE_SIZE |-> bi + (k - 1) * IMAGE_SIZE + p]],
       state |-> Ramp(bs, STATE_SIZE),
       reward |-> r,
       terminated |-> te,
       truncated |-> tr,
       return_poses |-> filling_up(<< Ramp(bp, 6) >>)] :
         bi \in {0, 100}, bs \in {200, 300}, r \in {0, 1}, te \in BOOLEAN,
         tr \in BOOLEAN, bp \in {400, 500} }

\* lines 226-239: the worker builds the flat record of its slice
Codec_Encode ==
    /\ codec.phase = "none"
    /\ \E x \in Records :
          codec' = [phase |-> "encoded", x |-> x, result |-> Encode(x),
                    cond |-> << >>]
    /\ UNCHANGED << PoolVars, AdapterVars >>

\* lines 587-612: the controller decodes the row
Codec_Decode ==
    /\ codec.phase = "encoded"
    /\ codec' = [codec EXCEPT !.phase = "decoded",
                              !.cond = de_initialize_result(codec.result)]
    /\ UNCHANGED << PoolVars, AdapterVars >>

NextCodec == Codec_Encode \/ Codec_Decode

SpecCodec == Init /\ [][NextCodec]_vars

(* ---- observers --------------------------------------------------------- *)

\* the controller is about to read the result array
AtRead == cpc \in {"init_dec", "step_dec", "reset_dec"}

\* the controller has acquired the done-signals of its cycle
CycleOver == cpc \in {"init_dec", "step_dec", "reset_clr", "reset_dec"}

\* between acquiring a go-signal and releasing the done-signal for it
InFlight(i) ==
    wpc[i] \in {"init_pub", "init_done", "chk", "roll", "reset_claim",
                "reset_incr", "reset_wrap", "reset_build", "reset_pub",
                "auto_claim", "auto_incr", "auto_wrap", "auto_build", "pub",
                "done"}

\* the last call has returned and no other has started
Returned(kind) == cpc = "idle" /\ ret.kind = kind

(* C1: in every controller cycle each of the N workers acquires exactly one
   go-signal and releases exactly one done-signal, and no worker consumes two
   go-signals of a cycle while another worker consumes none. *)
C1_OneGoOneDonePerWorker ==
    /\ CycleOver =>
          \A i \in Procs : /\ hist.cycle.goTaken[i] = 1
                           /\ hist.cycle.doneGiven[i] = 1
    /\ ~ \E i, j \in Procs : /\ hist.cycle.goTaken[i] >= 2
                             /\ hist.cycle.goTaken[j] = 0

(* C2: whenever the controller decodes the result array, every slice has been
   written exactly once in the cycle, by its owning worker. *)
C2_SliceWrittenOncePerCycle ==
    AtRead =>
      \A i \in Procs : /\ hist.cycle.written[i] = 1
                       /\ hist.cycle.writer[i] = i

(* C3: whenever the controller reads the result array it has acquired all N
   done-signals of the cycle and no worker is between a go-signal and its
   done-signal; and no slice is written from that read until the controller
   releases the go-signals of the next cycle. *)
C3_ReadAfterAllDone ==
    /\ [](AtRead => /\ hist.cycle.acquired = NumEnvs
                    /\ \A i \in Procs : ~InFlight(i))
    /\ [][(AtRead \/ cpc = "idle" \/ hist.cycle.released = 0)
            => (share_results' = share_results \/ gen' # gen)]_vars

\* a read that follows a cycle in which one worker took two go-signals
C3_Witness ==
    /\ cpc = "step_dec"
    /\ \E i \in Procs : hist.cycle.goTaken[i] = 2

(* C4: the batch init_process decodes has N entries, and terminated and
   truncated are false and the reward is 0 for every environment. *)
C4_InitBatchAllClear ==
    Returned("init") =>
      /\ ret.n = NumEnvs
      /\ \A i \in Procs : /\ ~ret.terminated[i]
                          /\ ~ret.truncated[i]
                          /\ ret.reward[i] = 0

(* C5: during one reset() every worker takes the reseeding branch exactly
   once and no worker applies an action; the reset flag is clear when reset()
   returns. *)
C5_ResetReseedsEachWorkerOnce ==
    (Returned("reset") /\ process # << >>) =>
      /\ \A i \in Procs : /\ hist.cycle.reseeds[i] = 1
                          /\ hist.cycle.applied[i] = 0
      /\ ~reset_event

(* C6: a reset() advances the seed cursor by exactly 1 per worker that
   reseeds, so by N modulo 30, also when a construction attempt fails and is
   retried. *)
C6_ResetAdvancesCursorByN ==
    (Returned("reset") /\ process # << >>) =>
      /\ share_seed = (hist.cycle.seedAtCall + NumEnvs) % SeedWrap
      /\ share_seed = (hist.cycle.seedAtCall
                         + Cardinality({i \in Procs : hist.cycle.reseeds[i] > 0}))
                       % SeedWrap

(* C7 as the specification states it: the cursor seen outside the lock and
   every claimed seed are in [0, 30), the k-th claim of a pool returns
   (s0 + k) mod 30 where s0 is the cursor at pool creation, and two workers
   of the same reset cycle never obtain the same seed (N <= 30). *)
C7_SeedClaimsAtomicAndDistinct ==
    /\ seed_lock = -1 => share_seed \in 0 .. (SeedWrap - 1)
    /\ \A i \in Procs : now_seed[i] \in 0 .. (SeedWrap - 1)
    /\ ~hist.cycle.wrong
    /\ seed_lock = -1 => share_seed = hist.expect
    /\ (NumEnvs <= SeedWrap /\ hist.cycle.kind = "reset") =>
          \A i, j \in Procs :
             (i # j /\ hist.cycle.got[i] # -1 /\ hist.cycle.got[j] # -1)
                => hist.cycle.got[i] # hist.cycle.got[j]

(* C7, amended: the cursor seen outside the lock and every claimed seed are
   in [0, 30), the k-th claim of a pool returns (s0 + k) mod 30 where s0 is
   the cursor at pool creation, and two workers of the same reset cycle never
   obtain the same seed as long as at most 30 seeds have been claimed in that
   cycle, failed constructions included. *)
C7_SeedClaimsAtomic ==
    /\ seed_lock = -1 => share_seed \in 0 .. (SeedWrap - 1)
    /\ \A i \in Procs : now_seed[i] \in 0 .. (SeedWrap - 1)
    /\ ~hist.cycle.wrong
    /\ seed_lock = -1 => share_seed = hist.expect
    /\ (hist.cycle.kind = "reset" /\ hist.cycle.claims <= SeedWrap) =>
          \A i, j \in Procs :
             (i # j /\ hist.cycle.got[i] # -1 /\ hist.cycle.got[j] # -1)
                => hist.cycle.got[i] # hist.cycle.got[j]

\* a reset cycle whose 30 claims took the cursor through its wrap and left
\* two workers with seeds of their own
C7_Witness ==
    /\ hist.cycle.kind = "reset"
    /\ hist.cycle.claims = SeedWrap
    /\ seed_lock = -1
    /\ share_seed = hist.cycle.seedAtCall
    /\ \A i \in Procs : hist.cycle.got[i] # -1

(* C8: the pool init_process creates after a clear() has N fresh worker
   handles, none of them one that clear() terminated, and its seed cursor
   starts at the value the cursor had right before clear() (0 if that value
   exceeded 3000). *)
C8_FreshPoolKeepsCursor ==
    (gen > 1 /\ cpc = "init_rel" /\ hist.cycle.released = 0) =>
      /\ Len(process) = NumEnvs
      /\ \A k \in DOMAIN process : process[k] \notin hist.dead
      /\ \A k, l \in DOMAIN process : process[k] = process[l] => k = l
      /\ \A i \in Procs : wpc[i] \in {"boot", "init_acq"}
      /\ share_seed = IF hist.atClear > SeedCap THEN 0 ELSE hist.atClear

\* a second pool that starts with a cursor other than the first pool's
C8_Witness ==
    /\ gen > 1 /\ cpc = "init_rel" /\ hist.cycle.released = 0
    /\ share_seed > 0
    /\ hist.dead # {}

(* C9: after clear() has returned, a following reset() call on the same
   object completes: it is never left with no step of the controller or of a
   worker to take. *)
C9_ResetAfterClearCompletes ==
    (hist.cycle.kind = "reset" /\ process = << >> /\ cpc # "idle")
      => ENABLED Next

(* C10: step() without actions writes an all-zero batch of length N*H*A, runs
   exactly one go/done cycle and returns None as its reward with the decoded
   terminated and truncated batches; step() with actions returns the decoded
   reward batch. *)
C10_StepWithoutActions ==
    (Returned("step") /\ process # << >>) =>
      /\ hist.cycle.released = NumEnvs
      /\ hist.cycle.acquired = NumEnvs
      /\ ret.n = NumEnvs
      /\ ret.terminated = [i \in Procs |-> share_results[i].terminated = 1]
      /\ ret.truncated = [i \in Procs |-> share_results[i].truncated = 1]
      /\ actionsArg = "None" =>
            /\ Len(share_actions) = NumEnvs * Horizon * action_dim
            /\ \A k \in DOMAIN share_actions : share_actions[k] = 0
            /\ ret.reward = None
      /\ actionsArg # "None" =>
            ret.reward = [i \in Procs |-> share_results[i].reward]

\* a step() without actions that returned a set flag and no reward
C10_Witness ==
    /\ Returned("step") /\ process # << >>
    /\ actionsArg = "None"
    /\ \E i \in Procs : ret.terminated[i]
    /\ \E i \in Procs : ret.truncated[i]

(* C11: over a simulator that never reports success, a step() returns, for
   every environment whose adapter has executed at least StepLim action rows
   since it was constructed, truncated = true, terminated = false and reward
   0; for every other environment both flags are false. *)
C11_TruncatedAtStepLimit ==
    (Returned("step") /\ process # << >>) =>
      \A i \in Procs :
         IF env[i].finish_step >= StepLim
         THEN /\ ret.truncated[i]
              /\ ~ret.terminated[i]
              /\ actionsArg # "None" => ret.reward[i] = 0
         ELSE /\ ~ret.truncated[i]
              /\ ~ret.terminated[i]

\* a step() call on the lone adapter has returned
StepReturned == apc = "idle" /\ acall.method = "step" /\ acall.returned

(* C14: every RobotwinEnvWrapper.step call has exactly one of three outcomes,
   where the count is the sum of the rows of all action arrays passed to
   step() since construction, calls whose take_action raised included:
   success gives terminated, not truncated, reward 1.0; no success with the
   count at or above the step limit gives truncated, not terminated, reward
   0.0; otherwise neither flag and reward 0.0. The flags are never both
   true. *)
C14_StepOutcome ==
    StepReturned =>
      /\ wrapper.finish_step = ahist.rows
      /\ IF acall.done
         THEN acall.terminated /\ ~acall.truncated /\ acall.reward = 1
         ELSE IF ahist.rows >= StepLim
         THEN ~acall.terminated /\ acall.truncated /\ acall.reward = 0
         ELSE ~acall.terminated /\ ~acall.truncated /\ acall.reward = 0
      /\ ~(acall.terminated /\ acall.truncated)

\* a success reported by the step that took the count past the step limit
C14_Witness ==
    /\ StepReturned
    /\ acall.done
    /\ ahist.rows > StepLim
    /\ acall.terminated

(* C15: a step() whose take_action raised does not propagate the exception:
   it returns with terminated false and reward 0.0, the observation refresh
   has been attempted, the step count has advanced by the rows of the call,
   and the adapter lock is free. *)
C15_StepSwallowsActionError ==
    /\ []((apc = "idle" /\ acall.method = "step" /\ acall.actRaised) =>
             /\ acall.returned
             /\ acall.raised = "none"
             /\ ~acall.terminated
             /\ acall.reward = 0
             /\ acall.obsTried
             /\ ~lock)
    /\ [][(apc = "step_fin" /\ acall.actRaised) =>
            /\ wrapper'.finish_step = wrapper.finish_step + acall.rows
            /\ acall'.obs = acall.obs]_vars

\* take_action raised in the call that reached the step limit, and the
\* refreshed observation was returned
C15_Witness ==
    /\ StepReturned
    /\ acall.actRaised
    /\ acall.obs = "obs"
    /\ acall.truncated

(* C16: for every adapter instance, active is true iff no step() call on it
   has returned terminated or truncated, active never turns true again on
   the instance, and complete is true only if some step() call on it
   reported success. *)
C16_ActiveAndComplete ==
    /\ [](/\ wrapper.active <=> ~ahist.ended
          /\ wrapper.complete => ahist.success)
    /\ [][(~wrapper.active /\ ahist' # FreshInstance) => ~wrapper'.active]_vars

\* an instance taken past the step limit by a step that reported success
C16_Witness ==
    /\ StepReturned
    /\ ~wrapper.active
    /\ wrapper.complete
    /\ ahist.rows > StepLim

(* C17: initialize() and get_obs() make at most two attempts: one when the
   first succeeds (for initialize, with the simulator set up exactly once),
   exactly two when the first raises; when the second fails its exception
   reaches the caller, and the adapter's locks are free. *)
C17_AtMostOneRetry ==
    (apc = "idle" /\ acall.method \in {"initialize", "get_obs"}) =>
      /\ acall.attempts <= 2
      /\ ~acall.firstRaised =>
            /\ acall.attempts = 1
            /\ acall.method = "initialize" => acall.setups = 1
      /\ acall.firstRaised => acall.attempts = 2
      /\ (acall.attempts = 2 /\ ~acall.returned) => acall.raised # "none"
      /\ ~lock /\ ~ENV_INIT_LOCK

(* C18: close() never propagates an exception: it asks the simulator to
   release its resources once when there is a simulator and not at all when
   there is none, swallows a failure of the release, and leaves the adapter
   lock free. *)
C18_CloseNeverRaises ==
    (apc = "idle" /\ acall.method = "close") =>
      /\ acall.returned
      /\ acall.raised = "none"
      /\ acall.releases = IF sim = "none" THEN 0 ELSE 1
      /\ ~lock

\* a close() that returned although the release raised
C18_Witness ==
    /\ apc = "idle" /\ acall.method = "close"
    /\ acall.returned
    /\ acall.actRaised
    /\ acall.releases = 1

(* C12: chunk_step returns, at position j of environment i's reward sequence,
   the reward of environment i's j-th cycle: 1.0 exactly when the simulator
   reported success to worker i in that cycle, and then the returned
   terminated sequence marks environment i as terminated. *)
C12_ChunkRewardPerCycle ==
    Returned("chunk") =>
      \A i \in Procs : \A j \in DOMAIN ret.reward[i] :
         /\ ret.success[i][j] <=> ret.reward[i][j] = 1
         /\ ret.success[i][j] => ret.terminated[i][Len(ret.terminated[i])]

(* C13: in the sequences chunk_step returns, every environment's terminated
   (truncated) flag is false at every position but the last, and the last
   position is the OR of the terminated (truncated) flags its step() calls
   returned for that environment. *)
C13_ChunkFlagsAtLastPosition ==
    Returned("chunk") =>
      \A i \in Procs :
         LET n == Len(ret.terminated[i])
         IN  /\ n = Len(ret.raw_terminated[i])
             /\ \A j \in 1 .. (n - 1) : /\ ~ret.terminated[i][j]
                                        /\ ~ret.truncated[i][j]
             /\ ret.terminated[i][n] <=>
                  \E k \in 1 .. n : ret.raw_terminated[i][k]
             /\ ret.truncated[i][n] <=>
                  \E k \in 1 .. n : ret.raw_truncated[i][k]

\* a chunk of two cycles whose first cycle terminated an environment and
\* whose second did not
C13_Witness ==
    /\ Returned("chunk")
    /\ \E i \in Procs :
          /\ Len(ret.terminated[i]) = 2
          /\ ret.raw_terminated[i][1]
          /\ ~ret.raw_terminated[i][2]
          /\ ret.terminated[i][2]

(* C19: a step() or reset() that returns a batch has had every slot of the
   batch produced in its own cycle: while a worker of the pool is dead, the
   call blocks and returns nothing. *)
C19_NoBatchWithDeadWorker ==
    (Returned("step") \/ Returned("reset")) =>
      \A i \in Procs : wpc[i] = "dead" => hist.cycle.written[Slice(i)] >= 1

\* the positions of a worker inside the reset branch, lines 115-162
ResetBranch == {"reset_claim", "reset_incr", "reset_wrap", "reset_build",
                "reset_pub"}

(* C20: a worker in the reset branch stays in it, claiming and rebuilding
   again whenever the reconstruction raises, until a reconstruction has
   succeeded; only then, from the adapter it rebuilt, does it publish and go
   on to release its done-signal (the pool being cleared apart). *)
C20_ResetRetriesUntilBuilt ==
    [][\A i \in Procs :
         (wpc[i] \in ResetBranch /\ wpc'[i] # "terminated") =>
            /\ wpc'[i] \in ResetBranch \cup {"done"}
            /\ (wpc[i] = "reset_build" /\ wpc'[i] # "reset_build") =>
                  wpc'[i] \in {"reset_claim", "reset_pub"}
            /\ wpc'[i] = "done" => (wpc[i] = "reset_pub" /\ env[i].built)]_vars

(* C21: a worker that has acquired a go-signal keeps going round its loop
   until it has written its slice and then released one done-signal for that
   go-signal; it never leaves the loop on the way (the pool being cleared
   apart). *)
C21_NoSlotSkipped ==
    [][\A i \in Procs :
         (InFlight(i) /\ wpc'[i] # "terminated") =>
            /\ InFlight(i)' \/ wpc'[i] = "acq"
            /\ wpc'[i] \in {"done", "init_done"} =>
                  \/ wpc[i] = wpc'[i]
                  \/ hist'.cycle.written[Slice(i)] =
                        hist.cycle.written[Slice(i)] + 1
            /\ wpc'[i] = "acq" =>
                  /\ wpc[i] \in {"done", "init_done"}
                  /\ output_sem' = output_sem + 1]_vars

(* C22: when a worker publishes the record of a rollout in which its episode
   terminated (its adapter is already the freshly built one, with no step
   run), the record carries the ended episode's reward 1, terminated 1 and
   truncated 0, not the values of the new episode; a rollout that did not
   terminate publishes terminated 0. *)
C22_TerminalRecordOfEndedEpisode ==
    [][\A i \in Procs :
         (wpc[i] = "pub" /\ wpc'[i] = "done") =>
            /\ env[i].finish_step = 0 <=> last[i].terminated
            /\ env[i].finish_step = 0 =>
                  share_results'[Slice(i)] = Record(1, 1, 0)
            /\ env[i].finish_step > 0 =>
                  share_results'[Slice(i)].terminated = 0]_vars

\* a worker about to release the done-signal of a step cycle in which its
\* episode succeeded: the terminal record is in its slice, its adapter is new
C22_Witness ==
    /\ hist.cycle.kind = "step"
    /\ \E i \in Procs :
          /\ wpc[i] = "done"
          /\ hist.cycle.success[i]
          /\ share_results[Slice(i)] = Record(1, 1, 0)
          /\ env[i] = NewWrapper(0)

(* C23: a worker that is about to release the done-signal of a rollout whose
   episode terminated has already claimed a seed in that cycle and holds a
   freshly initialised adapter (no step run, active); so whenever the
   controller is between cycles no worker holds an adapter whose episode has
   terminated. *)
C23_AutoResetSynchronous ==
    /\ \A i \in Procs :
          (wpc[i] = "done" /\ share_results[Slice(i)].terminated = 1) =>
             /\ env[i] = NewWrapper(0)
             /\ hist.cycle.claims >= 1
    /\ cpc = "idle" =>
          \A i \in Procs : ~env[i].complete

\* between two cycles, after a step cycle in which an episode succeeded
C23_Witness ==
    /\ Returned("step")
    /\ \E i \in Procs :
          /\ ret.terminated[i]
          /\ hist.cycle.success[i]
          /\ env[i] = NewWrapper(0)

(* C24: in a step cycle worker i executes at most Horizon low-level steps,
   exactly Horizon when none of them reports terminated; step t of a rollout
   applies row t of the worker's own block of the action array, and no step
   follows one that reported terminated. *)
C24_OwnRowsInOrder ==
    /\ [](hist.cycle.kind = "step" =>
            \A i \in Procs : hist.cycle.applied[i] <= Horizon)
    /\ [](cpc = "step_dec" =>
            \A i \in Procs :
               ~hist.cycle.success[i] => hist.cycle.applied[i] = Horizon)
    /\ [][\A i \in Procs :
            wt'[i] = wt[i] + 1 =>
               /\ ~last[i].terminated
               /\ last'[i].action =
                     [a \in 1 .. action_dim |->
                        share_actions[(i * Horizon + wt[i]) * action_dim + a]]
         ]_vars

(* C25: every adapter construction is paid for by an increment of the seed
   cursor made under its lock, the construction at worker start-up included:
   while the first cycle of a pool runs, the workers that hold an adapter are
   no more than the seeds claimed from the cursor since the pool was
   created. *)
C25_EveryConstructionClaimsSeed ==
    hist.cycle.kind = "init" =>
      Cardinality({i \in Procs : env[i].built}) <= hist.cycle.claims

(* C26: when step() has written the action array and is about to release the
   first go-signal of its cycle, the array holds the whole batch of the call;
   the array is written only while no worker is between acquiring a go-signal
   and releasing its done-signal and no go-signal is pending, and it does not
   change under a worker that is in between. *)
C26_ActionsWrittenBeforeGo ==
    /\ []((cpc = "step_rel" /\ ck = 0) =>
            /\ share_actions = StepActions(actionsArg)
            /\ hist.cycle.released = 0)
    /\ [][(share_actions' # share_actions \/ (cpc = "idle" /\ cpc' = "step_rel"))
            => /\ input_sem = 0
               /\ \A i \in Procs : ~InFlight(i)]_vars
    /\ [][\A i \in Procs :
            (InFlight(i) /\ InFlight(i)') => share_actions' = share_actions]_vars

\* a second call on a pool has written a caller's batch over the zeros of a
\* step() without actions and has released no go-signal yet
C26_Witness ==
    /\ cpc = "step_rel" /\ ck = 0
    /\ actionsArg = "batch"
    /\ share_actions = CallerActions
    /\ calls >= 2
    /\ \A i \in Procs : wpc[i] = "acq"

(* C27: at most one cycle is outstanding: neither semaphore ever counts more
   than N; when the controller starts a cycle (it is about to release the
   first go-signal of init_process, step or reset) both counts are 0 and no
   worker holds a go-signal; and when a cycle's call has returned, the
   go-signals it released have all been acquired and matched by as many
   acquired done-signals. *)
C27_OneCycleOutstanding ==
    /\ input_sem <= NumEnvs
    /\ output_sem <= NumEnvs
    /\ (cpc \in {"init_rel", "step_rel", "reset_rel"} /\ ck = 0) =>
          /\ input_sem = 0
          /\ output_sem = 0
          /\ \A i \in Procs : ~InFlight(i)
    /\ (cpc = "idle" /\ hist.cycle.kind \in {"init", "step", "reset"}) =>
          /\ hist.cycle.released = NumEnvs
          /\ hist.cycle.acquired = NumEnvs
          /\ input_sem = 0
          /\ output_sem = 0

\* a reset() that follows another call on the pool is about to release its
\* first go-signal
C27_Witness ==
    /\ cpc = "reset_rel" /\ ck = 0
    /\ reset_event
    /\ calls >= 2
    /\ process # << >>

(* C28: decoding the flat record a worker encodes gives back the images, the
   state, the reward, the terminated and truncated flags and the auxiliary
   trajectory that went in; the flat record has R = 6 * image_size +
   state_size + 3 + H * 6 elements and the decoded fields, taken in the order
   images, state, reward, terminated, truncated, trajectory, end exactly at
   element R. *)
C28_CodecRoundTrip ==
    codec.phase = "decoded" =>
      /\ Len(codec.result) = RESULT_SIZE
      /\ codec.cond.end = RESULT_SIZE
      /\ codec.cond.imgs = codec.x.imgs
      /\ codec.cond.state = << codec.x.state >>
      /\ codec.cond.reward = << codec.x.reward >>
      /\ (codec.cond.terminated[1] # 0) = codec.x.terminated
      /\ (codec.cond.truncated[1] # 0) = codec.x.truncated
      /\ codec.cond.return_poses = codec.x.return_poses

\* a terminal record (reward 1, terminated, not truncated) has been decoded
C28_Witness ==
    /\ codec.phase = "decoded"
    /\ codec.x.reward = 1
    /\ codec.x.terminated
    /\ ~codec.x.truncated
    /\ codec.cond.reward = << 1 >>

(* C29: a chunk_step call returns its batch; when the controller's auto reset
   is on and an environment terminated or was truncated during the chunk, the
   last cycle run before the return is an additional reset; otherwise the
   last cycle run is the chunk's last step. *)
C29_ChunkAutoReset ==
    (cpc = "idle" /\ ret.kind \in {"chunk", "chunk_no_handler"}) =>
      /\ ret.kind = "chunk"
      /\ LET done == \E i \in Procs :
                        \/ ret.terminated[i][Len(ret.terminated[i])]
                        \/ ret.truncated[i][Len(ret.truncated[i])]
         IN  hist.cycle.kind = IF auto_reset /\ done THEN "reset" ELSE "step"

(* C30: a step() without an action batch takes no step: during its cycle no
   worker applies a low-level step to its adapter and no seed is claimed, so
   every adapter's step count, active and complete flags and the seed cursor
   are what they were when the call began. *)
C30_NullStepLeavesEpisodes ==
    (hist.cycle.kind = "step" /\ actionsArg = "None") =>
      /\ \A i \in Procs : hist.cycle.applied[i] = 0
      /\ hist.cycle.claims = 0
      /\ share_seed = hist.cycle.seedAtCall

(* ---- fair scheduling of one pool --------------------------------------- *)

\* the steps the controller takes inside a call it has begun
InCallStep ==
    \/ C_InitRelease
    \/ C_InitAcquire
    \/ C_InitDecode
    \/ C_StepRelease
    \/ C_StepAcquire
    \/ C_StepDecode
    \/ C_ResetRelease
    \/ C_ResetAcquire
    \/ C_ResetClear
    \/ C_ResetDecode

\* a caller of one pool: init_process(), then step() and reset() calls
LiveCall == calls <= MaxCalls /\ (C_StepCall \/ C_ResetCall)

LiveController == C_InitProcess \/ LiveCall \/ InCallStep

NextLive == LiveController \/ \E i \in Procs : Worker(i)

\* the operating system runs every process that can run: the controller
\* inside a call, and each worker; the caller is free never to call again
SpecLive ==
    /\ Init
    /\ [][NextLive]_vars
    /\ WF_vars(InCallStep)
    /\ \A i \in Procs : WF_vars(Worker(i))

\* the controller is inside init_process, step() or reset()
InCall == cpc \notin {"idle", "construct"}

(* C31: under fair scheduling of the controller and of the N workers, every
   init_process, step() and reset() call that has begun eventually returns:
   the go- and done-semaphores, the reset flag and the seed-cursor lock never
   leave the controller waiting for ever. *)
C31_EveryCallReturns == InCall ~> (cpc = "idle")

\* a reset() has returned, as the second call after init_process, from a
\* cycle in which every worker claimed a seed under the lock
C31_Witness ==
    /\ Returned("reset")
    /\ calls = MaxCalls + 1
    /\ hist.cycle.claims >= NumEnvs
    /\ hist.cycle.acquired = NumEnvs

(* ---- one pool stepped past the step-count ceiling ----------------------- *)

\* the caller goes on calling step() after episodes were truncated
MaxLate == MaxFinish + Horizon

C_StepCallLate == StepCallUpTo(MaxLate)

TruncController == C_InitProcess \/ C_StepCallLate \/ C_ResetCall \/ InCallStep

NextTrunc == TruncController \/ \E i \in Procs : Worker(i)

SpecTrunc == Init /\ [][NextTrunc]_vars

\* worker i applies one low-level step (line 174)
Stepped(i) == wpc[i] = "roll" /\ wt'[i] = wt[i] + 1

(* C32: a step whose result is truncated does not end the rollout, claims no
   seed and leaves the worker its adapter, whose step count goes up by one;
   every step applied to an adapter that has reached the step-count ceiling
   reports truncated or terminated; and such an adapter is replaced only by
   the reset branch or by the auto reset that follows a terminated step. *)
C32_TruncationKeepsEpisode ==
    [][\A i \in Procs :
         /\ (Stepped(i) /\ last'[i].truncated) =>
               /\ ~last'[i].terminated
               /\ wpc'[i] = IF wt'[i] = Horizon THEN "pub" ELSE "roll"
               /\ env'[i] = [env[i] EXCEPT !.finish_step = @ + 1,
                                           !.active = FALSE,
                                           !.complete = FALSE]
               /\ share_seed' = share_seed
               /\ seed_lock' = seed_lock
               /\ hist'.cycle.claims = hist.cycle.claims
         /\ (Stepped(i) /\ env[i].finish_step >= StepLim) =>
               last'[i].truncated \/ last'[i].terminated
         /\ (env[i].finish_step >= StepLim /\ env'[i] # env[i]) =>
               \/ Stepped(i)
               \/ wpc[i] = "reset_build"
               \/ wpc[i] = "auto_build" /\ last[i].terminated]_vars

\* in a step cycle of which it took one go-signal, a worker has applied the
\* first row to an adapter that an earlier cycle left truncated, and the
\* step is truncated again
C32_Witness ==
    \E i \in Procs :
       /\ hist.cycle.kind = "step"
       /\ hist.cycle.goTaken[i] = 1
       /\ wpc[i] = "roll"
       /\ wt[i] = 1
       /\ env[i].finish_step > StepLim
       /\ last[i].truncated

\* the controller is between the first release of a go-signal and the last
\* acquire of a done-signal of a call that leaves the reset flag clear
InPlainCycle == cpc \in {"init_rel", "init_acq", "step_rel", "step_acq"}

\* the same part of a reset() call, between lines 484 and 493
InResetCycle == cpc \in {"reset_rel", "reset_acq"}

(* C33: a worker that has acquired a go-signal at line 108 and is about to
   read the reset flag reads it during the call that released the signal: the
   flag is set when that call is reset() and clear when it is step() or
   init_process, whichever worker took the signal and however the workers'
   acquisitions interleave with the setting and the clearing of the flag. *)
C33_FlagReadInItsCycle ==
    \A i \in Procs :
       wpc[i] = "chk" =>
          \/ InPlainCycle /\ hist.cycle.kind \in {"init", "step"} /\ ~reset_event
          \/ InResetCycle /\ hist.cycle.kind = "reset" /\ reset_event

\* a worker is about to read the flag for the second go-signal it took of
\* one reset() call
C33_Witness ==
    \E i \in Procs :
       /\ wpc[i] = "chk"
       /\ hist.cycle.kind = "reset"
       /\ hist.cycle.goTaken[i] = 2
       /\ reset_event

====
